---- MODULE Spec2Model ----
(***************************************************************************)
(* Route-contexted state of the TensorBoard web app.                       *)
(*                                                                         *)
(* createRouteContextedState (src/unnamed/part_000) builds an initial      *)
(* state and a reducer that, on every `navigated` action, archives the     *)
(* routeful fields under the namespace id that is left and loads the       *)
(* routeful fields of the namespace id that is entered.  The Location      *)
(* adapter (src/tensorboard/webapp/app_routing/location.ts) wraps          *)
(* window.location and window.history.                                     *)
(*                                                                         *)
(* The reducer is instantiated as in the specification's example: one      *)
(* routeful field, count, initially 0, and one non-routeful field,         *)
(* sidebar.  Namespace ids are strings that are not names of members       *)
(* inherited from Object.prototype.                                        *)
(***************************************************************************)
EXTENDS Integers, Sequences, FiniteSets, TLC

VARIABLES
    state,             \* the reducer's FullState held by the store
    onRouteIdChanged,  \* which optional hook createRouteContextedState got
    action,            \* the action the store reduced last
    prevState,         \* the FullState that action was reduced from
    hookCalls,         \* the calls of the hook made while reducing action
    leftWith,          \* noted per namespace id: the routeful fields left there
    activeNamespaceId, \* router: namespace id of the latest navigation
    visited,           \* router: namespace ids navigated into so far
    tour,              \* progress of the round trip A -> B -> A -> B
    window,            \* the browser: window.location and window.history
    call               \* the Location method called last, with its result

storeVars == <<state, onRouteIdChanged, action, prevState, hookCalls,
               leftWith, activeNamespaceId, visited, tour>>

vars == <<state, onRouteIdChanged, action, prevState, hookCalls,
          leftWith, activeNamespaceId, visited, tour, window, call>>

----------------------------------------------------------------------------
(* Bounds and input sets *)

\* Largest value a client reducer stores in the routeful field `count`.
MaxCount == 5

\* JavaScript null, for namespace ids and route ids.
Null == "<null>"

\* Namespace ids the router hands out; the empty string is a string too.
NamespaceIds == {"", "expA", "expB"}

\* `before` of the very first navigation: there is no route.
NoRoute == [routeKind |-> "<null>", params |-> "<null>"]

Routes == {[routeKind |-> "EXPERIMENT", params |-> "1"],
           [routeKind |-> "EXPERIMENT", params |-> "2"]}

\* Routes a navigation can come from: none, or the first experiment.
BeforeRoutes == {NoRoute, [routeKind |-> "EXPERIMENT", params |-> "1"]}

\* Strings of the Location adapter are sequences of characters.
\* Longest pathname of a route-like descriptor.
MaxPathLen == 2

\* Most query parameters of a route.
MaxParams == 2

PathChars == {"/", "a", ".", "?", "#"}

ParamKeys == {<<"a">>, <<"&">>}

ParamValues == {<<>>, <<"b", " ">>}

SeqsUpTo(S, n) == UNION {[1..k -> S] : k \in 0..n}

\* Most entries of the session history.
MaxHistory == 2

\* Scheme and host of the document.
Origin == <<"h", "t", "t", "p", ":", "/", "/", "t", "b">>

\* URLs handed to pushState and replaceState: a path, a query, a fragment.
Urls == {<<"/", "a">>, <<"?", "a">>, <<"#", "a">>}

\* Values handed to replaceState as the state of the entry.
HistoryData == {"data"}

----------------------------------------------------------------------------
(* createRouteContextedState *)

routefulInitialState == [count |-> 0]

nonRoutefulInitialState == [sidebar |-> FALSE]

keys == DOMAIN routefulInitialState

\* An object with no own property.
EmptyObject == [k \in {} |-> 0]

\* {...base, ...over}: own properties of `over` win.
Spread(base, over) ==
    [k \in (DOMAIN base) \cup (DOMAIN over) |->
        IF k \in DOMAIN over THEN over[k] ELSE base[k]]

\* privateNamespacedState is optional in the type: undefined, or a mapping.
UndefinedCache == [defined |-> FALSE, map |-> EmptyObject]

DefinedCache(m) == [defined |-> TRUE, map |-> m]

initialState ==
    Spread(Spread(routefulInitialState, nonRoutefulInitialState),
           [privateNamespacedState |-> DefinedCache(EmptyObject)])

\* if (x) on a `string | null`: null and "" are falsy.
Truthy(id) == id # Null /\ id # ""

\* The copy loop running over every top-level field but the cache itself.
RoutefulOf_CopiesEveryField(s) ==
    [k \in (DOMAIN s) \ {"privateNamespacedState"} |-> s[k]]

\* The whole state archived, the cache it holds included.
RoutefulOf_CopiesWholeState(s) == s

\* for (const key of keys) routefulStateToCache[key] = state[key]
RoutefulOf(s) == [k \in keys |-> s[k]]

\* state.privateNamespacedState?.[afterNamespaceId] is truthy
CacheHit(s, afterNamespaceId) ==
    /\ s.privateNamespacedState.defined
    /\ afterNamespaceId \in DOMAIN s.privateNamespacedState.map

\* updateRoutefulState with the miss branch taken without asking for a
\* previous id: the first navigation resets what was bootstrapped.
updateRoutefulState_ResetOnFirstLoad(s, beforeNamespaceId, afterNamespaceId) ==
    LET spreadCache == IF s.privateNamespacedState.defined
                       THEN s.privateNamespacedState.map
                       ELSE EmptyObject
        nextContextedStateCache ==
            IF Truthy(beforeNamespaceId)
            THEN Spread(spreadCache,
                        [id \in {beforeNamespaceId} |-> RoutefulOf(s)])
            ELSE spreadCache
        nextRoutefulState ==
            IF CacheHit(s, afterNamespaceId)
            THEN s.privateNamespacedState.map[afterNamespaceId]
            ELSE routefulInitialState
    IN  Spread(Spread(s, nextRoutefulState),
               [privateNamespacedState |->
                    DefinedCache(nextContextedStateCache)])

\* updateRoutefulState moving the entry it swaps in out of the cache.
updateRoutefulState_EvictsOnRestore(s, beforeNamespaceId, afterNamespaceId) ==
    LET spreadCache == IF s.privateNamespacedState.defined
                       THEN s.privateNamespacedState.map
                       ELSE EmptyObject
        archived ==
            IF Truthy(beforeNamespaceId)
            THEN Spread(spreadCache,
                        [id \in {beforeNamespaceId} |-> RoutefulOf(s)])
            ELSE spreadCache
        nextContextedStateCache ==
            [id \in (DOMAIN archived) \ {afterNamespaceId} |-> archived[id]]
        nextRoutefulState ==
            IF CacheHit(s, afterNamespaceId)
            THEN s.privateNamespacedState.map[afterNamespaceId]
            ELSE IF Truthy(beforeNamespaceId)
                 THEN routefulInitialState
                 ELSE EmptyObject
    IN  Spread(Spread(s, nextRoutefulState),
               [privateNamespacedState |->
                    DefinedCache(nextContextedStateCache)])

\* updateRoutefulState archiving under the id it enters, not the id it leaves.
updateRoutefulState_ArchivesUnderAfterId(s, beforeNamespaceId, afterNamespaceId) ==
    LET spreadCache == IF s.privateNamespacedState.defined
                       THEN s.privateNamespacedState.map
                       ELSE EmptyObject
        nextContextedStateCache ==
            IF Truthy(beforeNamespaceId)
            THEN Spread(spreadCache,
                        [id \in {afterNamespaceId} |-> RoutefulOf(s)])
            ELSE spreadCache
        nextRoutefulState ==
            IF CacheHit(s, afterNamespaceId)
            THEN s.privateNamespacedState.map[afterNamespaceId]
            ELSE IF Truthy(beforeNamespaceId)
                 THEN routefulInitialState
                 ELSE EmptyObject
    IN  Spread(Spread(s, nextRoutefulState),
               [privateNamespacedState |->
                    DefinedCache(nextContextedStateCache)])

\* The archive step spreading the old cache over the new entry, so that an
\* id keeps the entry of the first navigation away from it.
updateRoutefulState_KeepsOldEntry(s, beforeNamespaceId, afterNamespaceId) ==
    LET spreadCache == IF s.privateNamespacedState.defined
                       THEN s.privateNamespacedState.map
                       ELSE EmptyObject
        nextContextedStateCache ==
            IF Truthy(beforeNamespaceId)
            THEN Spread([id \in {beforeNamespaceId} |-> RoutefulOf(s)],
                        spreadCache)
            ELSE spreadCache
        nextRoutefulState ==
            IF CacheHit(s, afterNamespaceId)
            THEN s.privateNamespacedState.map[afterNamespaceId]
            ELSE IF Truthy(beforeNamespaceId)
                 THEN routefulInitialState
                 ELSE EmptyObject
    IN  Spread(Spread(s, nextRoutefulState),
               [privateNamespacedState |->
                    DefinedCache(nextContextedStateCache)])

updateRoutefulState(s, beforeNamespaceId, afterNamespaceId) ==
    LET spreadCache == IF s.privateNamespacedState.defined
                       THEN s.privateNamespacedState.map
                       ELSE EmptyObject
        nextContextedStateCache ==
            IF Truthy(beforeNamespaceId)
            THEN Spread(spreadCache,
                        [id \in {beforeNamespaceId} |-> RoutefulOf(s)])
            ELSE spreadCache
        nextRoutefulState ==
            IF CacheHit(s, afterNamespaceId)
            THEN s.privateNamespacedState.map[afterNamespaceId]
            ELSE IF Truthy(beforeNamespaceId)
                 THEN routefulInitialState
                 ELSE EmptyObject
    IN  Spread(Spread(s, nextRoutefulState),
               [privateNamespacedState |->
                    DefinedCache(nextContextedStateCache)])

\* internal_utils.getRouteId: a key derived from the kind and the params.
getRouteId(routeKind, params) == routeKind \o "/" \o params

\* The hook of the documentation's example usage: it returns a fresh object
\* with the two fields reset and no privateNamespacedState.
ExampleHook(s, newRoute) ==
    Spread(Spread(routefulInitialState, nonRoutefulInitialState),
           [privateNamespacedState |-> UndefinedCache])

\* The reducer running updateRoutefulState on every navigated action, also
\* when the namespace id stays.
reducers_AlwaysSwaps(s, a) ==
    LET swapped == updateRoutefulState(s, a.beforeNamespaceId,
                                       a.afterNamespaceId)
        afterRouteId == getRouteId(a.after.routeKind, a.after.params)
        beforeRouteId == IF a.before # NoRoute
                         THEN getRouteId(a.before.routeKind, a.before.params)
                         ELSE Null
    IN  IF beforeRouteId # afterRouteId /\ onRouteIdChanged = "example"
        THEN ExampleHook(swapped, a.after)
        ELSE swapped

\* The handler calling the hook only from the branch of a namespace change.
onNavigated_HookOnNamespaceChange(s, a) ==
    LET swapped == IF a.beforeNamespaceId # a.afterNamespaceId
                   THEN updateRoutefulState(s, a.beforeNamespaceId,
                                            a.afterNamespaceId)
                   ELSE s
        afterRouteId == getRouteId(a.after.routeKind, a.after.params)
        beforeRouteId == IF a.before # NoRoute
                         THEN getRouteId(a.before.routeKind, a.before.params)
                         ELSE Null
    IN  IF /\ a.beforeNamespaceId # a.afterNamespaceId
           /\ beforeRouteId # afterRouteId /\ onRouteIdChanged = "example"
        THEN [nextFullState |-> ExampleHook(swapped, a.after),
              hookCalls |-> <<[state |-> swapped, newRoute |-> a.after]>>]
        ELSE [nextFullState |-> swapped, hookCalls |-> <<>>]

\* on(navigated, (state, {before, after, beforeNamespaceId, afterNamespaceId}))
\* with the state it returns and the calls of onRouteIdChanged it makes.
onNavigated(s, a) ==
    LET swapped == IF a.beforeNamespaceId # a.afterNamespaceId
                   THEN updateRoutefulState(s, a.beforeNamespaceId,
                                            a.afterNamespaceId)
                   ELSE s
        afterRouteId == getRouteId(a.after.routeKind, a.after.params)
        beforeRouteId == IF a.before # NoRoute
                         THEN getRouteId(a.before.routeKind, a.before.params)
                         ELSE Null
    IN  IF beforeRouteId # afterRouteId /\ onRouteIdChanged = "example"
        THEN [nextFullState |-> ExampleHook(swapped, a.after),
              hookCalls |-> <<[state |-> swapped, newRoute |-> a.after]>>]
        ELSE [nextFullState |-> swapped, hookCalls |-> <<>>]

\* The reducer: the state the handler returns.
reducers(s, a) == onNavigated(s, a).nextFullState

----------------------------------------------------------------------------
(* The browser's URL parsing and query serialisation, as the adapter uses it *)

\* Index of the first character of s that is in cs, or Len(s) + 1.
FirstOf(s, cs) ==
    LET hits == {i \in 1..Len(s) : s[i] \in cs}
    IN  IF hits = {} THEN Len(s) + 1
        ELSE CHOOSE i \in hits : \A j \in hits : i <= j

RECURSIVE SplitOn(_, _)
\* s split at every occurrence of the character c.
SplitOn(s, c) ==
    LET at == FirstOf(s, {c})
    IN  IF at > Len(s) THEN <<s>>
        ELSE <<SubSeq(s, 1, at - 1)>>
                 \o SplitOn(SubSeq(s, at + 1, Len(s)), c)

RECURSIVE JoinWith(_, _)
\* The parts with the character c between them.
JoinWith(parts, c) ==
    IF parts = <<>> THEN <<>>
    ELSE IF Len(parts) = 1 THEN parts[1]
    ELSE parts[1] \o <<c>> \o JoinWith(Tail(parts), c)

RECURSIVE RemoveDotSegments(_, _)
\* The URL parser's path state: "." is dropped, ".." drops the segment
\* before it, and either one at the end leaves a trailing slash.
RemoveDotSegments(segs, out) ==
    IF segs = <<>> THEN out
    ELSE LET seg == Head(segs)
             slash == IF Len(segs) = 1 THEN << <<>> >> ELSE <<>>
         IN  IF seg = <<".", ".">>
             THEN RemoveDotSegments(Tail(segs),
                      (IF out = <<>> THEN out
                       ELSE SubSeq(out, 1, Len(out) - 1)) \o slash)
             ELSE IF seg = <<".">>
             THEN RemoveDotSegments(Tail(segs), out \o slash)
             ELSE RemoveDotSegments(Tail(segs), Append(out, seg))

SerializePath(segs) == <<"/">> \o JoinWith(segs, "/")

\* new URL(relativePath, base).pathname for a base with pathname basePath:
\* the query and the fragment of relativePath are cut off, an empty path
\* keeps the base's, an absolute path replaces it, and a relative path
\* replaces the base's last segment.
URLPathname(relativePath, basePath) ==
    LET path == SubSeq(relativePath, 1,
                       FirstOf(relativePath, {"?", "#"}) - 1)
        baseSegs == SplitOn(Tail(basePath), "/")
        baseDir == SubSeq(baseSegs, 1, Len(baseSegs) - 1)
    IN  IF path = <<>> THEN basePath
        ELSE IF Head(path) = "/"
        THEN SerializePath(RemoveDotSegments(SplitOn(Tail(path), "/"), <<>>))
        ELSE SerializePath(RemoveDotSegments(SplitOn(path, "/"), baseDir))

\* new URL(url, base) for a base at the location `base`: the pathname as
\* above; the query of url, or the base's when url has neither path nor
\* query; the fragment of url.  search and hash are empty for an empty query
\* or fragment and start with "?" and "#" otherwise.
NewURL(url, base) ==
    LET hashAt == FirstOf(url, {"#"})
        fragment == SubSeq(url, hashAt + 1, Len(url))
        beforeHash == SubSeq(url, 1, hashAt - 1)
        queryAt == FirstOf(beforeHash, {"?"})
        query == SubSeq(beforeHash, queryAt + 1, Len(beforeHash))
    IN  [pathname |-> URLPathname(url, base.pathname),
         search |-> IF queryAt <= Len(beforeHash)
                    THEN IF query = <<>> THEN <<>> ELSE <<"?">> \o query
                    ELSE IF queryAt = 1 THEN base.search ELSE <<>>,
         hash |-> IF fragment = <<>> THEN <<>> ELSE <<"#">> \o fragment]

\* application/x-www-form-urlencoded byte serialisation of one character.
FormEncodeChar(c) ==
    CASE c = " " -> <<"+">>
      [] c = "&" -> <<"%", "2", "6">>
      [] c = "=" -> <<"%", "3", "D">>
      [] c = "?" -> <<"%", "3", "F">>
      [] c = "#" -> <<"%", "2", "3">>
      [] OTHER -> <<c>>

RECURSIVE FormEncode(_)
FormEncode(s) ==
    IF s = <<>> THEN <<>> ELSE FormEncodeChar(Head(s)) \o FormEncode(Tail(s))

RECURSIVE FormDecode(_)
\* application/x-www-form-urlencoded decoding: "+" is a space and "%XX" is
\* the character with that code.
FormDecode(s) ==
    IF s = <<>> THEN <<>>
    ELSE IF Head(s) = "+" THEN <<" ">> \o FormDecode(Tail(s))
    ELSE IF Head(s) = "%" /\ Len(s) >= 3
    THEN LET code == SubSeq(s, 2, 3)
             rest == FormDecode(SubSeq(s, 4, Len(s)))
         IN  CASE code = <<"2", "6">> -> <<"&">> \o rest
               [] code = <<"3", "D">> -> <<"=">> \o rest
               [] code = <<"3", "F">> -> <<"?">> \o rest
               [] code = <<"2", "3">> -> <<"#">> \o rest
               [] OTHER -> <<"%">> \o FormDecode(Tail(s))
    ELSE <<Head(s)>> \o FormDecode(Tail(s))

\* new URLSearchParams(search): a leading "?" is dropped, the rest is split
\* at "&", empty pieces are skipped, and each piece is split at its first "="
\* into a name and a value, both decoded.
URLSearchParams(search) ==
    LET query == IF search # <<>> /\ Head(search) = "?"
                 THEN Tail(search) ELSE search
        pieces == SelectSeq(SplitOn(query, "&"), LAMBDA piece : piece # <<>>)
    IN  [i \in 1..Len(pieces) |->
            LET at == FirstOf(pieces[i], {"="})
            IN  <<FormDecode(SubSeq(pieces[i], 1, at - 1)),
                  FormDecode(SubSeq(pieces[i], at + 1, Len(pieces[i])))>>]

\* URLSearchParams.prototype.toString over the list of name/value pairs.
URLSearchParamsToString(pairs) ==
    JoinWith([i \in 1..Len(pairs) |->
                 FormEncode(pairs[i][1]) \o <<"=">> \o FormEncode(pairs[i][2])],
             "&")

----------------------------------------------------------------------------
(* location.ts *)

\* internal_utils.createURLSearchParamsFromSerializableQueryParams: a
\* URLSearchParams with every {key, value} appended in list order.
createURLSearchParamsFromSerializableQueryParams(queryParams) ==
    [i \in 1..Len(queryParams) |->
        <<queryParams[i].key, queryParams[i].value>>]

isNavigation(navOrRoute) ==
    /\ "pathname" \in DOMAIN navOrRoute
    /\ "queryParams" \notin DOMAIN navOrRoute

\* window.location.href: the serialised URL of the document.
LocationHref(location) ==
    Origin \o location.pathname \o location.search \o location.hash

\* utils.getHref and Location.getHref
getHref == LocationHref(window.location)

getSearch ==
    LET searchParams == URLSearchParams(window.location.search)
    IN  [i \in 1..Len(searchParams) |->
            [key |-> searchParams[i][1], value |-> searchParams[i][2]]]

getHash == window.location.hash

getPath == window.location.pathname

\* window.history.state: the state of the current entry.
getHistoryState == window.history.entries[window.history.index].state

\* A url argument of null: the entry keeps the URL of the document.
NullUrl == <<Null>>

\* The entry that history.pushState and history.replaceState build.
HistoryEntry(w, data, url) ==
    [state |-> data,
     location |-> IF url = NullUrl THEN w.location
                  ELSE NewURL(url, w.location)]

\* window.history.replaceState(data, '', url) on the browser w: the current
\* entry gets the state and the URL, and the document is at that URL.
HistoryReplaceState(w, data, url) ==
    LET entry == HistoryEntry(w, data, url)
    IN  [location |-> entry.location,
         history |-> [w.history EXCEPT !.entries[w.history.index] = entry]]

\* window.history.pushState(data, '', url) on the browser w: the entries
\* after the current one are dropped, the new entry is appended and becomes
\* the current one.
HistoryPushState(w, data, url) ==
    LET entry == HistoryEntry(w, data, url)
    IN  [location |-> entry.location,
         history |->
             [entries |-> Append(SubSeq(w.history.entries, 1,
                                        w.history.index), entry),
              index |-> w.history.index + 1]]

\* replaceState adding an entry instead of rewriting the current one.
replaceState_AddsEntry(data, url) == HistoryPushState(window, data, url)

\* The browser after Location.replaceState(data, url).
replaceState(data, url) == HistoryReplaceState(window, data, url)

\* The browser after Location.pushState(url).
pushState(url) == HistoryPushState(window, Null, url)

\* What the observable of onPopState hands on for the popstate event e.
onPopState(e) == [pathname |-> getPath, state |-> e.state]

getResolvedPath(relativePath) == URLPathname(relativePath, getPath)

\* The query string appended whenever the descriptor is a route, also for an
\* empty list of parameters.
getFullPathFromRouteOrNav_NoLengthTest(routeLike, shouldPreserveHash) ==
    LET pathname == getResolvedPath(routeLike.pathname)
        search ==
            IF ~isNavigation(routeLike)
            THEN <<"?">> \o URLSearchParamsToString(
                     createURLSearchParamsFromSerializableQueryParams(
                         routeLike.queryParams))
            ELSE <<>>
        hash == IF shouldPreserveHash = "true" THEN getHash ELSE <<>>
    IN  pathname \o search \o hash

\* The hash appended unless the caller passes false.
getFullPathFromRouteOrNav_HashUnlessFalse(routeLike, shouldPreserveHash) ==
    LET pathname == getResolvedPath(routeLike.pathname)
        search ==
            IF ~isNavigation(routeLike) /\ Len(routeLike.queryParams) # 0
            THEN <<"?">> \o URLSearchParamsToString(
                     createURLSearchParamsFromSerializableQueryParams(
                         routeLike.queryParams))
            ELSE <<>>
        hash == IF shouldPreserveHash # "false" THEN getHash ELSE <<>>
    IN  pathname \o search \o hash

getFullPathFromRouteOrNav(routeLike, shouldPreserveHash) ==
    LET pathname == getResolvedPath(routeLike.pathname)
        search ==
            IF ~isNavigation(routeLike) /\ Len(routeLike.queryParams) # 0
            THEN <<"?">> \o URLSearchParamsToString(
                     createURLSearchParamsFromSerializableQueryParams(
                         routeLike.queryParams))
            ELSE <<>>
        hash == IF shouldPreserveHash = "true" THEN getHash ELSE <<>>
    IN  pathname \o search \o hash

\* Route-like descriptors: pathnames that are not network-path references
\* ("//host..."), with a list of query parameters (a Route) or without (a
\* Navigation).
Pathnames ==
    {p \in SeqsUpTo(PathChars, MaxPathLen) :
        ~(Len(p) >= 2 /\ p[1] = "/" /\ p[2] = "/")}

QueryParamLists == SeqsUpTo([key : ParamKeys, value : ParamValues], MaxParams)

RouteDescriptors ==
    [routeKind : {"EXPERIMENT"}, params : {"1"},
     pathname : Pathnames, queryParams : QueryParamLists]

Navigations == [pathname : Pathnames]

\* The optional second argument: omitted, false or true.
OptionalBooleans == {"undefined", "false", "true"}

WindowLocations ==
    [pathname : {<<"/">>, <<"/", "d", "/", "e">>},
     search : {<<>>},
     hash : {<<>>, <<"#", "h">>, <<"#", "?">>}]

\* A browser that has just loaded the document at the location: one history
\* entry, without state.
BrowserAt(location) ==
    [location |-> location,
     history |-> [entries |-> <<[state |-> Null, location |-> location]>>,
                  index |-> 1]]

----------------------------------------------------------------------------
(* The store *)

InitAction == [type |-> "@ngrx/store/init"]

NavigatedAction(beforeNamespaceId, afterNamespaceId, before, after) ==
    [type |-> "navigated",
     before |-> before, after |-> after,
     beforeNamespaceId |-> beforeNamespaceId,
     afterNamespaceId |-> afterNamespaceId]

\* The round trip of the specification's example, followed over the actions:
\* stage 1 after a navigation A -> B that started from count = 0, the
\* routeful initial state, and found no entry for B, stage 2 after
\* the navigation B -> A that left B with count = 5, stage 3 after the
\* navigation A -> B that follows.  Writes on the way keep the stage.
NoTour == [stage |-> 0, A |-> Null, B |-> Null]

TourAfter(t, s, a) ==
    LET b == a.beforeNamespaceId
        n == a.afterNamespaceId
    IN  IF t.stage = 1 /\ b = t.B /\ n = t.A /\ s.count = 5
        THEN [t EXCEPT !.stage = 2]
        ELSE IF t.stage = 2 /\ b = t.A /\ n = t.B
        THEN [t EXCEPT !.stage = 3]
        ELSE IF /\ b # Null /\ b # n /\ ~CacheHit(s, n)
                /\ RoutefulOf(s) = routefulInitialState
        THEN [stage |-> 1, A |-> b, B |-> n]
        ELSE NoTour

NoCall == [method |-> "none"]

Init ==
    /\ state = initialState
    /\ onRouteIdChanged = "undefined"
    /\ action = InitAction
    /\ prevState = initialState
    /\ hookCalls = <<>>
    /\ leftWith = EmptyObject
    /\ activeNamespaceId = Null
    /\ visited = {}
    /\ tour = NoTour
    /\ window = BrowserAt([pathname |-> <<"/">>, search |-> <<>>,
                            hash |-> <<>>])
    /\ call = NoCall

\* The record of the navigations away from a namespace id: a navigated
\* action that changes the namespace id and has a previous id notes, under
\* the previous id, the routeful fields that are live when it arrives.
LeftWithAfter(left, s, a) ==
    IF a.beforeNamespaceId # Null /\ a.beforeNamespaceId # a.afterNamespaceId
    THEN Spread(left, [id \in {a.beforeNamespaceId} |->
                          [k \in keys |-> s[k]]])
    ELSE left

\* The store reduces one navigated action.
Reduce(a) ==
    /\ state' = reducers(state, a)
    /\ action' = a
    /\ prevState' = state
    /\ hookCalls' = onNavigated(state, a).hookCalls
    /\ tour' = TourAfter(tour, state, a)
    /\ UNCHANGED <<onRouteIdChanged, window, call>>

\* Any navigated action dispatched to the reducer.
Navigated ==
    \E b \in NamespaceIds \cup {Null}, n \in NamespaceIds,
       before \in BeforeRoutes, after \in Routes :
        /\ Reduce(NavigatedAction(b, n, before, after))
        /\ UNCHANGED <<leftWith, activeNamespaceId, visited>>

\* The navigated actions of the router: each one leaves the namespace the
\* previous one entered, and the first one leaves none.
RouterNavigated ==
    \E n \in NamespaceIds, before \in BeforeRoutes, after \in Routes :
        /\ Reduce(NavigatedAction(activeNamespaceId, n, before, after))
        /\ activeNamespaceId' = n
        /\ visited' = visited \cup {n}
        /\ UNCHANGED leftWith

\* Any navigated action within the first experiment (from no route when
\* there is no previous namespace id), dispatched to the reducer while the
\* navigations away from each namespace id are recorded.
NavigatedNoting ==
    \E b \in NamespaceIds \cup {Null}, n \in NamespaceIds :
        LET route == [routeKind |-> "EXPERIMENT", params |-> "1"]
            a == NavigatedAction(b, n, IF b = Null THEN NoRoute ELSE route,
                                 route)
        IN  /\ Reduce(a)
            /\ leftWith' = LeftWithAfter(leftWith, state, a)
            /\ UNCHANGED <<activeNamespaceId, visited>>

\* The client's own reducers (composed after the route reducers) write the
\* top-level fields; they never touch privateNamespacedState.
ClientWrite(field, value) ==
    /\ state' = [state EXCEPT ![field] = value]
    /\ action' = [type |-> "write", field |-> field]
    /\ prevState' = state
    /\ hookCalls' = <<>>
    /\ UNCHANGED <<onRouteIdChanged, leftWith, activeNamespaceId, visited,
                   tour, window, call>>

SetCount == \E v \in 0..MaxCount : v # state.count /\ ClientWrite("count", v)

ToggleSidebar == ClientWrite("sidebar", ~state.sidebar)

Next == Navigated \/ SetCount \/ ToggleSidebar

Spec == Init /\ [][Next]_vars

NextRouted == RouterNavigated \/ SetCount \/ ToggleSidebar

SpecRouted == Init /\ [][NextRouted]_vars

NextNoting == NavigatedNoting \/ SetCount \/ ToggleSidebar

SpecNoting == Init /\ [][NextNoting]_vars

\* The store of a feature that passed the example hook as onRouteIdChanged.
InitHook ==
    /\ state = initialState
    /\ onRouteIdChanged = "example"
    /\ action = InitAction
    /\ prevState = initialState
    /\ hookCalls = <<>>
    /\ leftWith = EmptyObject
    /\ activeNamespaceId = Null
    /\ visited = {}
    /\ tour = NoTour
    /\ window = BrowserAt([pathname |-> <<"/">>, search |-> <<>>,
                            hash |-> <<>>])
    /\ call = NoCall

SpecHook == InitHook /\ [][Next]_vars

----------------------------------------------------------------------------
(* The Location adapter over a browser at any of the modelled locations *)

\* The result of a call that has not returned yet.
Pending == <<"pending">>

\* A call of getFullPathFromRouteOrNav about to run.
FullPathCalls ==
    [method : {"getFullPathFromRouteOrNav"},
     routeLike : RouteDescriptors \cup Navigations,
     shouldPreserveHash : OptionalBooleans,
     result : {Pending}]

InitLocation ==
    /\ state = initialState
    /\ onRouteIdChanged = "undefined"
    /\ action = InitAction
    /\ prevState = initialState
    /\ hookCalls = <<>>
    /\ leftWith = EmptyObject
    /\ activeNamespaceId = Null
    /\ visited = {}
    /\ tour = NoTour
    /\ window \in {BrowserAt(location) : location \in WindowLocations}
    /\ call \in FullPathCalls

\* The call runs and returns; `before` is the browser it was called on.
GetFullPathFromRouteOrNav ==
    /\ call.method = "getFullPathFromRouteOrNav"
    /\ call.result = Pending
    /\ call' = Spread(call,
                      [result |-> getFullPathFromRouteOrNav(
                                      call.routeLike, call.shouldPreserveHash),
                       before |-> window])
    /\ UNCHANGED <<window, storeVars>>

NextLocation == GetFullPathFromRouteOrNav

SpecLocation == InitLocation /\ [][NextLocation]_vars

----------------------------------------------------------------------------
(* The Location adapter called again and again on one browser session *)

\* Route-like descriptors of the session: the pathnames are the URLs above,
\* a route has one query parameter without a value.
SessionRouteLikes ==
    {r \in RouteDescriptors \cup Navigations :
        /\ r.pathname \in Urls
        /\ ~isNavigation(r) =>
               /\ Len(r.queryParams) = 1
               /\ r.queryParams[1] = [key |-> <<"a">>, value |-> <<>>]}

InitHistory ==
    /\ state = initialState
    /\ onRouteIdChanged = "undefined"
    /\ action = InitAction
    /\ prevState = initialState
    /\ hookCalls = <<>>
    /\ leftWith = EmptyObject
    /\ activeNamespaceId = Null
    /\ visited = {}
    /\ tour = NoTour
    /\ window = BrowserAt([pathname |-> <<"/">>,
                            search |-> <<"?", "a", "=", "b", "+">>,
                            hash |-> <<>>])
    /\ call = NoCall

\* A method that returns a value: `before` is the browser it was called on.
Returns(method, args, result) ==
    /\ call' = [method |-> method, args |-> args, result |-> result,
                before |-> window]
    /\ UNCHANGED <<window, storeVars>>

\* A method that returns nothing and leaves the browser as `after`.
Leaves(method, args, after) ==
    /\ window' = after
    /\ call' = [method |-> method, args |-> args, result |-> "undefined",
                before |-> window]
    /\ UNCHANGED storeVars

GetHref == Returns("getHref", <<>>, getHref)

GetSearch == Returns("getSearch", <<>>, getSearch)

GetHash == Returns("getHash", <<>>, getHash)

GetPath == Returns("getPath", <<>>, getPath)

GetHistoryState == Returns("getHistoryState", <<>>, getHistoryState)

ReplaceState ==
    \E data \in HistoryData, url \in Urls \cup {NullUrl} :
        Leaves("replaceState", <<data, url>>, replaceState(data, url))

\* The session history holds at most MaxHistory entries.
PushState ==
    \E url \in Urls :
        /\ window.history.index < MaxHistory
        /\ Leaves("pushState", <<url>>, pushState(url))

\* The call builds the observable; popstate events come later.
OnPopState == Returns("onPopState", <<>>, "Observable")

GetResolvedPath ==
    \E relativePath \in Urls :
        Returns("getResolvedPath", <<relativePath>>,
                getResolvedPath(relativePath))

SessionGetFullPathFromRouteOrNav ==
    \E routeLike \in SessionRouteLikes,
       shouldPreserveHash \in OptionalBooleans :
        Returns("getFullPathFromRouteOrNav",
                <<routeLike, shouldPreserveHash>>,
                getFullPathFromRouteOrNav(routeLike, shouldPreserveHash))

\* The user goes back or forward: the browser moves to the neighbouring
\* entry and fires popstate with that entry's state, which the observable of
\* onPopState maps and hands to its subscribers.
PopState ==
    \E index \in {window.history.index - 1, window.history.index + 1} :
        /\ index \in 1..Len(window.history.entries)
        /\ window' = [location |-> window.history.entries[index].location,
                      history |-> [window.history EXCEPT !.index = index]]
        /\ call' = [method |-> "popstate", args |-> <<>>,
                    result |-> onPopState(
                        [state |-> window.history.entries[index].state])',
                    before |-> window]
        /\ UNCHANGED storeVars

NextHistory ==
    \/ GetHref \/ GetSearch \/ GetHash \/ GetPath \/ GetHistoryState
    \/ ReplaceState \/ PushState \/ OnPopState \/ GetResolvedPath
    \/ SessionGetFullPathFromRouteOrNav \/ PopState

SpecHistory == InitHistory /\ [][NextHistory]_vars

----------------------------------------------------------------------------
(* What the claims speak about *)

\* The dictionary held in a state.
Cache(s) == s.privateNamespacedState.map

\* The last action was a navigated action.
IsNavigated == action.type = "navigated"

\* The last action ran updateRoutefulState: the namespace id changed.
IsTransition ==
    IsNavigated /\ action.beforeNamespaceId # action.afterNamespaceId

\* The transition found an entry for the namespace id it entered.
WasHit == CacheHit(prevState, action.afterNamespaceId)

----------------------------------------------------------------------------
(* C1 - C9: the route state cache *)

\* C1: the live routeful fields right after a transition into R are (a) the
\* snapshot cached for R, or (b) the routeful initial state if there is no
\* snapshot and the previous id is not null, or (c) the fields as they were
\* if there is no snapshot and the previous id is null.
C1_LiveAfterTransition ==
    IsTransition =>
        IF WasHit
        THEN RoutefulOf(state) = Cache(prevState)[action.afterNamespaceId]
        ELSE IF action.beforeNamespaceId # Null
             THEN RoutefulOf(state) = routefulInitialState
             ELSE RoutefulOf(state) = RoutefulOf(prevState)

\* C2: on the round trip A -> B (from count = 0, no entry for B), count := 5,
\* B -> A, A -> B, the first navigation leaves count at 0, the second restores the entry of A
\* (or 0 without one), and the third restores count = 5.
C2_RoundTrip ==
    IsNavigated =>
        /\ tour.stage = 1 => state.count = 0
        /\ tour.stage = 2 =>
               state.count = IF WasHit THEN Cache(prevState)[tour.A].count
                             ELSE 0
        /\ tour.stage = 3 => state.count = 5

\* C3: after a transition whose previous id is not null, the cache holds
\* under that id exactly the routeful fields that were live before it.
C3_ArchivedUnderPreviousId ==
    (IsTransition /\ action.beforeNamespaceId # Null) =>
        /\ CacheHit(state, action.beforeNamespaceId)
        /\ Cache(state)[action.beforeNamespaceId] = RoutefulOf(prevState)

\* C4: a transition with a previous id that is not null, into an id without
\* an entry, resets every routeful field to the routeful initial state.
C4_MissResets ==
    (IsTransition /\ action.beforeNamespaceId # Null /\ ~WasHit) =>
        RoutefulOf(state) = routefulInitialState

C6_OthersDormantInCache ==
    \A id \in visited \ {activeNamespaceId} : CacheHit(state, id)

\* C7: no action removes a key from the cache, and an action adds or changes
\* at most the entry under the previous id of the navigation.
C7_CacheAppendOnly ==
    /\ DOMAIN Cache(prevState) \subseteq DOMAIN Cache(state)
    /\ \A id \in DOMAIN Cache(state) :
          (~IsNavigated \/ id # action.beforeNamespaceId) =>
              /\ id \in DOMAIN Cache(prevState)
              /\ Cache(state)[id] = Cache(prevState)[id]

C7_Witness ==
    /\ IsTransition
    /\ action.beforeNamespaceId \in DOMAIN Cache(prevState)
    /\ Cache(state)[action.beforeNamespaceId]
           # Cache(prevState)[action.beforeNamespaceId]
    /\ WasHit
    /\ Cardinality(DOMAIN Cache(state)) = 2

C9_NonRoutefulShared ==
    /\ IsNavigated =>
           \A k \in DOMAIN nonRoutefulInitialState : state[k] = prevState[k]
    /\ \A id \in DOMAIN Cache(state) :
           DOMAIN Cache(state)[id] \cap DOMAIN nonRoutefulInitialState = {}

C9_Witness ==
    /\ IsTransition /\ WasHit
    /\ state.sidebar # nonRoutefulInitialState.sidebar
    /\ state.count # prevState.count
    /\ action.beforeNamespaceId \in DOMAIN Cache(state)

----------------------------------------------------------------------------
(* C10: the Location adapter *)

\* The last call was getFullPathFromRouteOrNav(route) on a route (a
\* descriptor with a list of query parameters), the hash not being asked for.
IsFullPathOfRoute ==
    /\ call.method = "getFullPathFromRouteOrNav"
    /\ call.result # Pending
    /\ "queryParams" \in DOMAIN call.routeLike
    /\ call.shouldPreserveHash # "true"

C10_WitnessBare ==
    /\ IsFullPathOfRoute
    /\ call.routeLike.queryParams = <<>>
    /\ call.routeLike.pathname = <<".", ".">>
    /\ window.location.hash # <<>>
    /\ call.result = <<"/">>

----------------------------------------------------------------------------
(* C11: the browser history under the Location adapter *)

\* The methods of the adapter that only read the browser.
ReadingMethods ==
    {"getHref", "getSearch", "getHash", "getPath", "getHistoryState",
     "getResolvedPath", "getFullPathFromRouteOrNav", "onPopState"}

\* C11: of the adapter's methods only pushState and replaceState change the
\* browser.  pushState adds one entry, without state, right after the entry
\* that was current, keeps the entries up to there, and makes the new entry
\* the current one, so that a history without forward entries grows by one;
\* replaceState puts its data into the current entry and changes neither
\* the number of entries, nor the other entries, nor which one is current;
\* every other method leaves the history and the location as they were.
C11_HistoryOnlyByPushAndReplace ==
    call.method # "none" =>
        LET was == call.before.history
            now == window.history
        IN  /\ call.method \in ReadingMethods => window = call.before
            /\ call.method = "pushState" =>
                   /\ now.index = was.index + 1
                   /\ Len(now.entries) = now.index
                   /\ SubSeq(now.entries, 1, was.index)
                          = SubSeq(was.entries, 1, was.index)
                   /\ now.entries[now.index].state = Null
                   /\ was.index = Len(was.entries) =>
                          Len(now.entries) = Len(was.entries) + 1
            /\ call.method = "replaceState" =>
                   /\ now.index = was.index
                   /\ Len(now.entries) = Len(was.entries)
                   /\ \A i \in 1..Len(was.entries) :
                          i # was.index => now.entries[i] = was.entries[i]
                   /\ now.entries[now.index].state = call.args[1]
            /\ window.location = now.entries[now.index].location

\* A reading method called on a history that pushState extended and whose
\* second entry replaceState rewrote.
C11_Witness ==
    /\ call.method = "getFullPathFromRouteOrNav"
    /\ window = call.before
    /\ Len(window.history.entries) = 2
    /\ window.history.index = 2
    /\ window.history.entries[2].state \in HistoryData
    /\ window.history.entries[2].location
           # window.history.entries[1].location

----------------------------------------------------------------------------
(* C12 - C15: more on the route state cache *)

\* C12: without a hook, a navigated action whose previous and new namespace
\* ids are equal returns the state it was given: the live routeful fields,
\* the non-routeful fields and the cache are all as before.
C12_SameNamespaceKeepsState ==
    (IsNavigated /\ action.beforeNamespaceId = action.afterNamespaceId) =>
        state = prevState

\* Such an action with a stale entry under the id in the cache, between two
\* routes with different route ids.
C12_Witness ==
    /\ IsNavigated
    /\ action.beforeNamespaceId = action.afterNamespaceId
    /\ CacheHit(prevState, action.afterNamespaceId)
    /\ Cache(prevState)[action.afterNamespaceId] # RoutefulOf(prevState)
    /\ action.before # NoRoute
    /\ getRouteId(action.before.routeKind, action.before.params)
           # getRouteId(action.after.routeKind, action.after.params)
    /\ state.count # routefulInitialState.count
    /\ state.sidebar # nonRoutefulInitialState.sidebar

\* The route ids of the last navigated action, as the handler derives them.
BeforeRouteId ==
    IF action.before # NoRoute
    THEN getRouteId(action.before.routeKind, action.before.params)
    ELSE Null

AfterRouteId == getRouteId(action.after.routeKind, action.after.params)

\* The state after the archive-and-load step of the last navigated action.
SwappedState ==
    IF IsTransition
    THEN updateRoutefulState(prevState, action.beforeNamespaceId,
                             action.afterNamespaceId)
    ELSE prevState

\* C13: with a hook, a navigated action calls the hook exactly when the
\* route id of `before` (null without a `before`) differs from the route id
\* of `after`, whether or not the namespace id changes; the call is made
\* once, with the state after the archive-and-load step and the new route,
\* and what the hook returns is the state the reducer returns.  Without a
\* call the reducer returns the state after the archive-and-load step.
C13_HookOnRouteIdChange ==
    IsNavigated =>
        IF BeforeRouteId # AfterRouteId
        THEN /\ hookCalls = <<[state |-> SwappedState,
                               newRoute |-> action.after]>>
             /\ state = ExampleHook(hookCalls[1].state, hookCalls[1].newRoute)
        ELSE /\ hookCalls = <<>>
             /\ state = SwappedState

\* The hook called after a namespace change that archived the live value
\* and loaded another one from the cache.
C13_Witness ==
    /\ IsTransition /\ WasHit
    /\ Truthy(action.beforeNamespaceId)
    /\ hookCalls # <<>>
    /\ hookCalls[1].state.count # prevState.count
    /\ hookCalls[1].state.count # routefulInitialState.count
    /\ Cache(hookCalls[1].state)[action.beforeNamespaceId]
           = RoutefulOf(prevState)
    /\ prevState.sidebar
    /\ state = ExampleHook(prevState, action.after)

\* C14: without a hook, every key of the cache is a namespace id that a
\* namespace-changing navigated action has had as its previous id, and the
\* entry under it holds the routeful fields that were live when the latest
\* such action arrived.
C14_CacheHoldsWhatWasLeft ==
    \A id \in DOMAIN Cache(state) :
        /\ id \in DOMAIN leftWith
        /\ Cache(state)[id] = leftWith[id]

\* A navigated action that stays in a namespace id shows which id is live:
\* here the entry kept under the live id is what was left there earlier and
\* differs from the live routeful fields.
C14_Witness ==
    /\ IsNavigated
    /\ action.beforeNamespaceId = action.afterNamespaceId
    /\ CacheHit(state, action.afterNamespaceId)
    /\ Cache(state)[action.afterNamespaceId] = leftWith[action.afterNamespaceId]
    /\ Cache(state)[action.afterNamespaceId] # RoutefulOf(state)
    /\ Cache(state)[action.afterNamespaceId] # routefulInitialState
    /\ Cardinality(DOMAIN Cache(state)) = 2
    /\ "" \in DOMAIN leftWith

\* C15: without a hook, privateNamespacedState is always a defined mapping,
\* and every entry of it has exactly the routeful field names as its keys:
\* no non-routeful field and no privateNamespacedState of its own.
C15_EntriesAreRoutefulOnly ==
    /\ state.privateNamespacedState.defined
    /\ \A id \in DOMAIN Cache(state) :
           /\ DOMAIN Cache(state)[id] = DOMAIN routefulInitialState
           /\ "privateNamespacedState" \notin DOMAIN Cache(state)[id]
           /\ DOMAIN Cache(state)[id] \cap DOMAIN nonRoutefulInitialState = {}

\* An entry archived from a state that had a non-routeful field set and a
\* cache with an entry in it.
C15_Witness ==
    /\ IsTransition
    /\ prevState.sidebar
    /\ Cache(prevState) # EmptyObject
    /\ action.beforeNamespaceId \notin DOMAIN Cache(prevState)
    /\ action.beforeNamespaceId \in DOMAIN Cache(state)
    /\ Cardinality(DOMAIN Cache(state)) = 2

----------------------------------------------------------------------------
(* C16: the full path of a route-like descriptor *)

\* C16: getFullPathFromRouteOrNav returns the resolved path, then the
\* search, then the hash.  The search is empty for a navigation (a
\* descriptor with a pathname and without query parameters), whatever its
\* pathname holds, and for a route it is empty or "?" and the serialised
\* parameters; the hash is the hash of the current location when
\* shouldPreserveHash is true and empty when it is false or left out.  The
\* hash of the current location is the same after the call as before it.
C16_FullPathParts ==
    (call.method = "getFullPathFromRouteOrNav" /\ call.result # Pending) =>
        LET path == URLPathname(call.routeLike.pathname,
                                call.before.location.pathname)
            hash == IF call.shouldPreserveHash = "true"
                    THEN call.before.location.hash
                    ELSE <<>>
            search == SubSeq(call.result, Len(path) + 1,
                             Len(call.result) - Len(hash))
            params == call.routeLike.queryParams
        IN  /\ call.result = path \o search \o hash
            /\ ("pathname" \in DOMAIN call.routeLike
                    /\ "queryParams" \notin DOMAIN call.routeLike) =>
                   search = <<>>
            /\ "queryParams" \in DOMAIN call.routeLike =>
                   search = IF params = <<>> THEN <<>>
                            ELSE <<"?">> \o URLSearchParamsToString(
                                     [i \in 1..Len(params) |->
                                         <<params[i].key, params[i].value>>])
            /\ window.location.hash = call.before.location.hash

\* A navigation whose pathname holds a query, with the hash asked for, at a
\* location that has one.
C16_Witness ==
    /\ call.method = "getFullPathFromRouteOrNav"
    /\ call.result # Pending
    /\ "queryParams" \notin DOMAIN call.routeLike
    /\ call.routeLike.pathname = <<"?", "a">>
    /\ call.shouldPreserveHash = "true"
    /\ window.location.hash = <<"#", "?">>
    /\ call.result = <<"/", "d", "/", "e", "#", "?">>

====
